---------------------------- MODULE Spec2Model ----------------------------
(***************************************************************************)
(* Model of the seedstr agent: the polling pipeline (AgentRunner in        *)
(* seedstr_agent/runner.py), the model failover client (LLMFailoverClient  *)
(* in seedstr_agent/llm.py), the marketplace client's respond_file         *)
(* negotiation (SeedstrApiClient in seedstr_agent/api.py) and the start    *)
(* guard of the web wrapper (flask_app/app.py).                            *)
(*                                                                         *)
(* Texts that the code trims are sequences of one-character strings, so    *)
(* that str.strip() is computed and not assumed.  None is the empty text   *)
(* wherever the code treats None and "" alike.                             *)
(***************************************************************************)
EXTENDS Naturals, Integers, Sequences, FiniteSets, TLC

(***************************************************************************)
(* Bounds of the model.                                                    *)
(***************************************************************************)
\* The cap of the persisted seen_jobs array.  runner.py:141 slices with
\* [-1000:]; the model scales the cap down so that a store over the cap is
\* reachable, and every statement about "1000" is stated about SeenCap.
SeenCap == 2

\* The longest job listing one list_jobs call returns.
MaxJobs == 2

\* The generate calls one holder of a failover client makes in a row.
MaxCalls == 2

\* The longest list an upload result carries under "files".
MaxFiles == 2

\* The _ensure_agent_thread calls the web wrapper gets (one at its start,
\* one for every health check).
MaxTriggers == 2

(***************************************************************************)
(* Settings (seedstr_agent/config.py) fixed for the model.                 *)
(***************************************************************************)
min_budget_usd == 1

gemini_api_key == "g"

openai_api_key == "o"

gemini_models == <<"g1", "g2">>

openai_models == <<"o1">>

(***************************************************************************)
(* Values.                                                                 *)
(***************************************************************************)
\* Job ids the marketplace uses: one more than the cap, so that the store
\* can exceed it.  A job's "id" field may be any JSON value; str() of it is
\* what the pipeline keeps (runner.py:57).
JobIds == {ToString(i) : i \in 1..(SeenCap + 1)}

Range(s) == {s[i] : i \in 1..Len(s)}

\* str.strip(): leading and trailing blanks removed.
RECURSIVE LStrip(_)
LStrip(t) == IF t # <<>> /\ Head(t) = " " THEN LStrip(Tail(t)) ELSE t

RECURSIVE RStrip(_)
RStrip(t) ==
    IF t # <<>> /\ t[Len(t)] = " " THEN RStrip(SubSeq(t, 1, Len(t) - 1)) ELSE t

Strip(t) == LStrip(RStrip(t))

\* All orderings of a finite set: what list(a_set) may return, since a
\* Python set iterates in hash order, not in insertion order.
RECURSIVE Orderings(_)
Orderings(S) ==
    IF S = {} THEN {<<>>}
    ELSE UNION {{<<x>> \o r : r \in Orderings(S \ {x})} : x \in S}

\* some_list[-n:] : the last n elements (all of them if there are fewer).
LastN(s, n) == IF Len(s) <= n THEN s ELSE SubSeq(s, Len(s) - n + 1, Len(s))


(***************************************************************************)
(* The program's state.                                                    *)
(***************************************************************************)
VARIABLES
    pc,             \* where the worker is: run_forever / run_once / _process_job
    seen_jobs,      \* AgentRunner._seen_jobs, a Python set of job ids
    listed,         \* list(self._seen_jobs) as _mark_seen last computed it
    state_file,     \* the file at settings.state_path
    todo,           \* jobs of the current listing the for loop has not reached
    job_id,         \* _process_job's local job_id
    job_type,       \* _process_job's local job_type
    prompt,         \* _process_job's local prompt (already stripped)
    ti,             \* generate: index of the next target in self.targets
    errors,         \* generate: the local errors list
    attempted,      \* generate: the targets whose provider call was made
    replies,        \* generate: what each of those provider calls did
    answer,         \* _process_job's local answer
    used_model,     \* _process_job's local used_model
    upload_result,  \* _process_job's local upload_result
    archive,        \* the ZIP file at archive_path, while the temporary directory exists
    ai,             \* respond_file: index of the next payload in attempts
    last_error,     \* respond_file: the local last_error ("" for None)
    sent,           \* respond_file: the payloads handed to _request, with results
    exc,            \* the message of the exception a call has just raised
    settings,       \* the Settings fields LLMFailoverClient was given
    targets,        \* LLMFailoverClient.targets
    trace,          \* the client calls _process_job has made for this job
    outcome,        \* how the last finished _process_job call ended
    submitted,      \* ids for which respond_file has returned in this process
    tracked,        \* a job the marketplace keeps listing unchanged (id "": none)
    AGENT_STATUS,   \* flask_app/app.py: the module's AGENT_STATUS dict
    _AGENT_LOCK,    \* flask_app/app.py: the thread that holds _AGENT_LOCK (0: none)
    triggers,       \* where each _ensure_agent_thread call is
    threads         \* where the thread each call has started is

vars == <<pc, seen_jobs, listed, state_file, todo, job_id, job_type, prompt, ti,
          errors,
          attempted, replies, answer, used_model, upload_result, archive, ai,
          last_error, sent, exc, settings, targets, trace, outcome, submitted, tracked,
          AGENT_STATUS, _AGENT_LOCK, triggers, threads>>

\* The state of the web wrapper, which no step of the pipeline touches.
flask == <<AGENT_STATUS, _AGENT_LOCK, triggers, threads>>

(***************************************************************************)
(* The Seen-Job Store: runner.py, _load_seen_jobs and _mark_seen.          *)
(***************************************************************************)
\* No file at the path: path.exists() is false (runner.py:130).
MissingFile == [kind |-> "missing", jobs |-> <<>>]

\* A file that is not JSON: json.loads raises (runner.py:133).
CorruptFile == [kind |-> "corrupt", jobs |-> <<>>]

\* json.dumps({"seen_jobs": jobs}) written with write_text.
SeenJobsFile(jobs) == [kind |-> "valid", jobs |-> jobs]

\* JSON without the expected structure for which runner.py:134-135 raises
\* or finds nothing: a value that is not an object (payload.get raises),
\* an object without "seen_jobs", or "seen_jobs" holding null or a number
\* (the comprehension raises).
NoListFile == [kind |-> "no_list", jobs |-> <<>>]

\* JSON without the expected structure that runner.py:135 iterates all the
\* same: "seen_jobs" holding a string, whose items are its characters, or
\* an object, whose items are its keys.  jobs holds those items.
IterableFile(items) == [kind |-> "iterable", jobs |-> items]

\* A path that exists and can be neither read nor written as a file (a
\* directory, a file of another user): read_text and write_text raise
\* OSError.
UnwritableFile == [kind |-> "unwritable", jobs |-> <<>>]

\* A loader that forgets what was persisted.
LoadNothing(f) == {}

\* runner.py:129-137.  Whatever line 133-135 raises gives the empty set; a
\* "seen_jobs" value that can be iterated gives str() of its items.
_load_seen_jobs(f) ==
    IF f.kind \in {"valid", "iterable"} THEN Range(f.jobs) ELSE {}

\* A persist without the slice.
Untrimmed(l) == l

\* runner.py:141, the slice [-1000:].
Trimmed(l) == LastN(l, SeenCap)

\* runner.py:142, write_text: it raises OSError at a path that cannot be
\* written, and _mark_seen has no handler for it.
MarkRaises == state_file.kind = "unwritable"

\* A set whose iteration order changes from one list() call to the next.
ListedAnew(id) == Orderings(seen_jobs \cup {id})

\* runner.py:140-141: what list(self._seen_jobs) may be after add(id).  The
\* iteration order of a set is unspecified, so for a set that has changed,
\* or that no call has listed yet, it is any ordering; add() of an id the
\* set holds leaves the set as it is, and iterating an unchanged set gives
\* the order the call before got.
Listed(id) ==
    IF id \in seen_jobs /\ Range(listed) = seen_jobs
    THEN {listed}
    ELSE Orderings(seen_jobs \cup {id})

\* A store that forgets what it holds when it is at the cap.
RememberedToCap(id) ==
    IF Cardinality(seen_jobs) >= SeenCap THEN {id} ELSE seen_jobs \cup {id}

\* runner.py:140: self._seen_jobs.add(job_id); nothing ever leaves the set.
Remembered(id) == seen_jobs \cup {id}

\* runner.py:139-145.  The id is in the set, and the set listed, before the
\* write is tried.
_mark_seen(id) ==
    /\ seen_jobs' = Remembered(id)
    /\ \E l \in Listed(id) :
         /\ listed' = l
         /\ IF MarkRaises
            THEN state_file' = state_file
            ELSE state_file' = SeenJobsFile(Trimmed(l))

(***************************************************************************)
(* The marketplace client: api.py, _request.                               *)
(***************************************************************************)
\* What the network does with one request: a parsed body with a success
\* status, a body that is not JSON, a non-success status with a JSON object
\* as body, a non-success status with a JSON list as body, or no response
\* at all (requests.request raises: connection refused, timeout).
RequestOutcomes == {"ok", "bad_json", "http_error", "http_error_list", "transport"}

\* api.py:24-46.  "return": the parsed body; "SeedstrApiError": raised at
\* line 40 or 44; "AttributeError": data.get at line 43 on a body that is
\* not an object; "RequestException": the exception of requests.request at
\* line 29, which _request does not catch.
_request(net) ==
    CASE net = "ok" -> "return"
      [] net \in {"bad_json", "http_error"} -> "SeedstrApiError"
      [] net = "http_error_list" -> "AttributeError"
      [] OTHER -> "RequestException"

\* What _request hands to its caller without raising, and the one kind of
\* exception the callers have handlers for.
Handled == {"return", "SeedstrApiError"}

\* str(exc) of what _request raises: api.py:40, api.py:43-44, the
\* AttributeError of line 43, and the exception of requests.request.
ErrorMessage(net) ==
    CASE net = "bad_json" -> "Invalid JSON from API (502)"
      [] net = "http_error" -> "HTTP 500"
      [] net = "http_error_list" -> "'list' object has no attribute 'get'"
      [] net = "transport" -> "connection timed out"
      [] OTHER -> ""

(***************************************************************************)
(* The marketplace client: api.py, respond_file and its helpers.           *)
(* A JSON object is a function from the keys it has to their values.       *)
(***************************************************************************)
\* api.py:115, the tuple keys.
RefKeys == <<"url", "fileUrl", "cdnUrl", "signedUrl", "path", "key", "id", "fileId">>

\* dict.get(k): None, the empty text here, for a key the object lacks.
Get(d, k) == IF k \in DOMAIN d THEN d[k] ELSE <<>>

EmptyObject == [k \in {} |-> <<>>]

\* An item of the list under "files": a JSON object, or a JSON value of
\* another kind (a string, a number, null).
DictItem(obj) == [is_dict |-> TRUE, obj |-> obj]

OtherItem == [is_dict |-> FALSE, obj |-> EmptyObject]

\* An upload result: its top-level reference keys, a list under "files"
\* (has_files: the value is a list) and an object under "file" (has_file:
\* the value is an object).
UploadResult(top, has_files, files, has_file, file) ==
    [top |-> top, has_files |-> has_files, files |-> files,
     has_file |-> has_file, file |-> file]

\* api.py:105, [item for item in files if isinstance(item, dict)].
RECURSIVE DictsOf(_)
DictsOf(items) ==
    IF items = <<>> THEN <<>>
    ELSE (IF Head(items).is_dict THEN <<Head(items).obj>> ELSE <<>>)
         \o DictsOf(Tail(items))

\* api.py:101-111.
_extract_upload_file_candidates(u) ==
    IF u.has_files THEN DictsOf(u.files)
    ELSE IF u.has_file THEN <<u.file>>
    ELSE <<>>

\* A collector that keeps a value as it is found, blanks included.
add_ref_untrimmed(refs, value) ==
    IF value # <<>> /\ value \notin Range(refs) THEN Append(refs, value) ELSE refs

\* api.py:118-123, add_ref on the local list refs.
add_ref(refs, value) ==
    LET text == Strip(value)
    IN  IF text # <<>> /\ text \notin Range(refs) THEN Append(refs, text) ELSE refs

\* api.py:125-126 and 129-130: for key in keys: add_ref(d.get(key)).
RECURSIVE ScanKeys(_, _, _)
ScanKeys(refs, d, i) ==
    IF i > Len(RefKeys) THEN refs
    ELSE ScanKeys(add_ref(refs, Get(d, RefKeys[i])), d, i + 1)

\* api.py:128-130: for item in the file candidates.
RECURSIVE ScanItems(_, _, _)
ScanItems(refs, items, j) ==
    IF j > Len(items) THEN refs
    ELSE ScanItems(ScanKeys(refs, items[j], 1), items, j + 1)

\* api.py:113-132.
_extract_upload_reference_strings(u) ==
    ScanItems(ScanKeys(<<>>, u.top, 1), _extract_upload_file_candidates(u), 1)

\* One request body of respond_file: its responseType, the key that carries
\* the file or the text, and that key's value.
Payload(type, key, value) == [responseType |-> type, key |-> key, value |-> value]

\* Four shapes for a reference string instead of five.
RefAttemptsWithoutFiles(ref) ==
    << Payload("FILE", "content", ref),
       Payload("FILE", "fileUrl", ref),
       Payload("FILE", "url", ref),
       Payload("FILE", "attachments", <<ref>>) >>

\* api.py:146-154: the five shapes of one reference string.
RefAttempts(ref) ==
    << Payload("FILE", "content", ref),
       Payload("FILE", "fileUrl", ref),
       Payload("FILE", "url", ref),
       Payload("FILE", "attachments", <<ref>>),
       Payload("FILE", "files", <<("url" :> ref)>>) >>

RECURSIVE AllRefAttempts(_, _)
AllRefAttempts(refs, i) ==
    IF i > Len(refs) THEN <<>>
    ELSE RefAttempts(refs[i]) \o AllRefAttempts(refs, i + 1)

\* api.py:136-157: the list attempts.
RespondAttempts(u, fallback_text) ==
    LET file_items == _extract_upload_file_candidates(u)
        refs == _extract_upload_reference_strings(u)
        files_part ==
            IF file_items # <<>>
            THEN <<Payload("FILE", "files", file_items)>>
                 \o (IF Len(file_items) = 1
                     THEN <<Payload("FILE", "file", file_items[1])>>
                     ELSE <<>>)
            ELSE <<>>
    IN  files_part \o AllRefAttempts(refs, 1)
        \o <<Payload("TEXT", "content", fallback_text)>>

\* A message that does not name the job.
SubmitFailedMessageNoJob(id, last) == "Failed to submit file response: " \o last

\* api.py:166, the message of the SeedstrApiError after the loop.
SubmitFailedMessage(id, last) ==
    "Failed to submit file response for job " \o id \o ": " \o last

\* Upload results the marketplace returns in the model: nothing usable, and
\* one descriptor with a url (the shape of the tests' fake).
UploadResults ==
    { UploadResult(EmptyObject, FALSE, <<>>, FALSE, EmptyObject),
      UploadResult(EmptyObject, TRUE, <<DictItem("url" :> <<"u">>)>>, FALSE,
                   EmptyObject) }

(***************************************************************************)
(* The model failover client: llm.py.                                      *)
(***************************************************************************)
ModelTarget(provider, model) == [provider |-> provider, model |-> model]

\* The four Settings fields LLMFailoverClient is constructed from
\* (runner.py:26-32, llm.py:17-24).
LLMSettings(gemini_key, openai_key, g_models, o_models) ==
    [gemini_api_key |-> gemini_key, openai_api_key |-> openai_key,
     gemini_models |-> g_models, openai_models |-> o_models]

\* A provider that needs only its model list.
EnabledByModelsAlone(api_key, models) == models # <<>>

\* llm.py:28-29, bool(api_key and models).
Enabled(api_key, models) == api_key # "" /\ models # <<>>

\* llm.py:35 and 38, the generator handed to self.targets.extend.
ProviderTargets(provider, models) ==
    [i \in 1..Len(models) |-> ModelTarget(provider, models[i])]

\* A construction that lists the openai models first.
OpenAiFirst(s) ==
    (IF Enabled(s.openai_api_key, s.openai_models)
     THEN ProviderTargets("openai", s.openai_models) ELSE <<>>)
    \o
    (IF Enabled(s.gemini_api_key, s.gemini_models)
     THEN ProviderTargets("gemini", s.gemini_models) ELSE <<>>)

\* llm.py:26-38, self.targets as __init__ builds it from the settings s.
ConfiguredTargets(s) ==
    (IF Enabled(s.gemini_api_key, s.gemini_models)
     THEN ProviderTargets("gemini", s.gemini_models) ELSE <<>>)
    \o
    (IF Enabled(s.openai_api_key, s.openai_models)
     THEN ProviderTargets("openai", s.openai_models) ELSE <<>>)

\* The settings the pipeline runs with.
RunSettings ==
    LLMSettings(gemini_api_key, openai_api_key, gemini_models, openai_models)

\* llm.py:26-38, self.targets of the pipeline's client.
Targets == ConfiguredTargets(RunSettings)

\* llm.py:41, the message of the ValueError.
NoModelsMessage ==
    "No LLM models configured. Set GEMINI_API_KEY/OPENAI_API_KEY with model lists."

\* llm.py:54, f"{target.provider}:{target.model}".
Label(target) == target.provider \o ":" \o target.model

\* What a provider's SDK does with one call: it raises, or it answers with a
\* text (the empty text for None or "").
SdkTexts == {<<>>, <<" ">>, <<" ", "x", " ">>}

SdkOutcomes ==
    {[raised |-> TRUE, text |-> <<>>]} \cup {[raised |-> FALSE, text |-> t] : t \in SdkTexts}

\* llm.py:63-90, _generate_gemini and _generate_openai: the SDK's exception,
\* a RuntimeError when the text is missing or empty, else the text.
ProviderCall(target, sdk) ==
    IF sdk.raised THEN [raised |-> TRUE, exc |-> "sdk error", text |-> <<>>]
    ELSE IF sdk.text = <<>>
    THEN [raised |-> TRUE,
          exc |-> IF target.provider = "gemini"
                  THEN "Gemini response has no text field"
                  ELSE "OpenAI response is empty",
          text |-> <<>>]
    ELSE [raised |-> FALSE, exc |-> "", text |-> sdk.text]

\* A success test that takes any text, blank or not.
IsSuccessAnyText(text) == TRUE

\* llm.py:53, the test of one target's text.
IsSuccess(text) == Strip(text) # <<>>

\* A reason that does not say which target failed.
FailureReasonUnlabelled(target, r) ==
    IF r.raised THEN "failed: " \o r.exc ELSE "returned empty output"

\* llm.py:55-59, the string appended to errors for a failed target.
FailureReason(target, r) ==
    IF r.raised THEN Label(target) \o " failed: " \o r.exc
    ELSE Label(target) \o " returned empty output"

\* str.join: the strings of parts with sep between neighbours.
RECURSIVE Join(_, _)
Join(parts, sep) ==
    IF parts = <<>> THEN ""
    ELSE IF Len(parts) = 1 THEN parts[1]
    ELSE parts[1] \o sep \o Join(Tail(parts), sep)

\* llm.py:61, the message of the RuntimeError.
AllFailedMessage(errs) == "All configured models failed. " \o Join(errs, " | ")

(***************************************************************************)
(* Jobs as the marketplace lists them.                                     *)
(***************************************************************************)
\* A JSON field that float() is applied to: absent (or null), a value that
\* float() rejects, or a number.
Absent == [t |-> "absent", v |-> 0]

NotANumber == [t |-> "text", v |-> 0]

Num(n) == [t |-> "num", v |-> n]

Job(id, type, budget, per_agent, text) ==
    [id |-> id, jobType |-> type, budget |-> budget, budgetPerAgent |-> per_agent,
     prompt |-> text]

\* The jobs a listing may hold.  The id "" stands for a missing or empty id.
Jobs ==
    { Job(id, type, budget, per_agent, text) :
        id \in JobIds \cup {""},
        type \in {"STANDARD", "SWARM"},
        budget \in {Absent, NotANumber, Num(0), Num(2)},
        per_agent \in {Absent, NotANumber, Num(2)},
        text \in {<<>>, <<" ">>, <<" ", "p">>} }

\* runner.py:115-127.
_effective_budget(job) ==
    IF job.jobType = "SWARM" /\ job.budgetPerAgent.t # "absent"
    THEN IF job.budgetPerAgent.t = "num" THEN job.budgetPerAgent.v ELSE 0
    ELSE IF job.budget.t = "num" THEN job.budget.v ELSE 0

(***************************************************************************)
(* Construction: AgentRunner.__init__ (runner.py:18-33).                   *)
(***************************************************************************)
NoUpload == UploadResult(EmptyObject, FALSE, <<>>, FALSE, EmptyObject)

\* No archive: the temporary directory does not exist.
NoArchive == [path |-> <<>>, members |-> <<>>]

\* The locals of a _process_job call before it has assigned them.
FreshLocals ==
    /\ job_type' = ""
    /\ prompt' = <<>>
    /\ ti' = 1
    /\ errors' = <<>>
    /\ attempted' = <<>>
    /\ replies' = <<>>
    /\ answer' = <<>>
    /\ used_model' = ""
    /\ upload_result' = NoUpload
    /\ archive' = NoArchive
    /\ ai' = 1
    /\ last_error' = ""
    /\ sent' = <<>>

\* No job: the value of tracked when the marketplace keeps no job listed.
NoJob == Job("", "STANDARD", Absent, Absent, <<>>)

\* No _process_job call is under way.
NoLocals ==
    /\ job_id = ""
    /\ job_type = ""
    /\ prompt = <<>>
    /\ ti = 1
    /\ errors = <<>>
    /\ attempted = <<>>
    /\ replies = <<>>
    /\ answer = <<>>
    /\ used_model = ""
    /\ upload_result = NoUpload
    /\ archive = NoArchive
    /\ ai = 1
    /\ last_error = ""
    /\ sent = <<>>
    /\ trace = <<>>
    /\ exc = ""

\* flask_app/app.py:23-28, AGENT_STATUS as the module defines it
\* (last_started_utc, a timestamp nothing reads, is left out; "" is None).
InitialStatus == [started |-> FALSE, running |-> FALSE, last_error |-> ""]

\* The _ensure_agent_thread calls of the web wrapper, by number.
Triggers == 1..MaxTriggers

\* A process without the web wrapper: main.py runs the AgentRunner itself.
NoWebApp ==
    /\ AGENT_STATUS = InitialStatus
    /\ _AGENT_LOCK = 0
    /\ triggers = [i \in Triggers |-> "none"]
    /\ threads = [i \in Triggers |-> "none"]

\* The state files a process may find at its start: none, one that is not
\* JSON, one an earlier process wrote, and two that are JSON without the
\* expected structure.
StartFiles ==
    {MissingFile, CorruptFile, SeenJobsFile(<<>>), NoListFile,
     IterableFile(<<"1", "2">>)}

\* The worker before its first poll, over the state file as it is found.
StartedOver(files) ==
    /\ pc = "poll"
    /\ settings = RunSettings
    /\ targets = ConfiguredTargets(settings)
    /\ state_file \in files
    /\ seen_jobs = _load_seen_jobs(state_file)
    /\ listed = <<>>
    /\ todo = 0
    /\ NoLocals
    /\ outcome = "none"
    /\ submitted = {}
    /\ NoWebApp

Started == StartedOver(StartFiles)

Init ==
    /\ Started
    /\ tracked = NoJob

(***************************************************************************)
(* run_forever and run_once (runner.py:35-54).                             *)
(***************************************************************************)
locals == <<job_type, prompt, ti, errors, attempted, replies, answer, used_model,
            upload_result, archive, ai, last_error, sent>>

\* The failover client, which no step of the pipeline changes.
client == <<settings, targets>>

\* runner.py:53, the for loop of run_once: the next job, or run_once returns
\* to run_forever, which sleeps.
AfterJob(left) == IF left = 0 THEN "sleep" ELSE "jobs"

\* _process_job returns with the outcome o; its locals are gone.
EndJob(o) ==
    /\ outcome' = o
    /\ pc' = "return"
    /\ FreshLocals

\* An exception leaves _process_job, run_once and run_forever: the worker
\* is gone.
Crash ==
    /\ outcome' = "crashed"
    /\ pc' = "crashed"
    /\ todo' = 0
    /\ FreshLocals

\* A handler that marks the failed job seen.
OnExceptionMarkSeen == _mark_seen(job_id)

\* runner.py:112-113: the handler of an exception raised in the try block.
OnException == UNCHANGED <<seen_jobs, listed, state_file>>

\* runner.py:42-51: list_jobs, and the early returns.
ListJobs ==
    /\ pc = "poll"
    /\ UNCHANGED <<seen_jobs, listed, state_file, job_id, trace, submitted, tracked, exc,
                   client, flask>>
    /\ \E net \in RequestOutcomes :
         \/ /\ _request(net) = "SeedstrApiError"
            /\ pc' = "sleep"
            /\ todo' = 0
            /\ outcome' = "list_failed"
            /\ UNCHANGED locals
         \/ /\ _request(net) \notin Handled
            /\ Crash
         \/ /\ _request(net) = "return"
            /\ \E n \in 0..MaxJobs :
                 /\ todo' = n
                 /\ pc' = AfterJob(n)
                 /\ outcome' = IF n = 0 THEN "no_jobs" ELSE "none"
            /\ UNCHANGED locals

\* runner.py:53-54: _process_job has returned to the for loop.
ReturnJob ==
    /\ pc = "return"
    /\ pc' = AfterJob(todo)
    /\ job_id' = ""
    /\ trace' = <<>>
    /\ outcome' = "none"
    /\ exc' = ""
    /\ UNCHANGED <<seen_jobs, listed, state_file, todo, locals, submitted, tracked, client, flask>>

\* runner.py:39: run_once has returned; run_forever sleeps, then polls.
Sleep ==
    /\ pc = "sleep"
    /\ pc' = "poll"
    /\ outcome' = "none"
    /\ UNCHANGED <<seen_jobs, listed, state_file, todo, job_id, locals, trace, submitted,
                   tracked, exc, client, flask>>

(***************************************************************************)
(* _process_job (runner.py:56-113).                                        *)
(***************************************************************************)
\* A pipeline whose seen test never hits.
AlreadySeenNever(id) == FALSE

\* runner.py:61, the test job_id in self._seen_jobs.
AlreadySeen(id) == id \in seen_jobs

\* A pipeline that accepts no job.
AfterBudgetNoAccept(type) == "prompt"

\* runner.py:75: a SWARM job is accepted first, any other job is not.
AfterBudget(type) == IF type = "SWARM" THEN "accept" ELSE "prompt"

\* A pipeline that takes a job without an id.
HasIdAlways(id) == TRUE

\* runner.py:57-58: str(job.get("id", "")) is not empty.
HasId(id) == id # ""

\* runner.py:57-75: the id, the seen test and the budget test of the next
\* job of the listing.  A tracked job is listed with the fields it has.
\* The OSError of _mark_seen's write leaves _process_job and run_once.
BeginJob ==
    /\ pc = "jobs"
    /\ trace' = <<>>
    /\ UNCHANGED <<submitted, tracked, exc, client, flask>>
    /\ \E job \in Jobs :
         /\ (tracked.id # "" /\ job.id = tracked.id) => job = tracked
         /\ job_id' = job.id
         /\ \/ /\ ~HasId(job.id)
               /\ UNCHANGED <<seen_jobs, listed, state_file>>
               /\ todo' = todo - 1
               /\ EndJob("skipped_no_id")
            \/ /\ HasId(job.id)
               /\ AlreadySeen(job.id)
               /\ UNCHANGED <<seen_jobs, listed, state_file>>
               /\ todo' = todo - 1
               /\ EndJob("skipped_seen")
            \/ /\ HasId(job.id)
               /\ ~AlreadySeen(job.id)
               /\ _effective_budget(job) < min_budget_usd
               /\ _mark_seen(job.id)
               /\ IF MarkRaises
                  THEN Crash
                  ELSE todo' = todo - 1 /\ EndJob("under_budget")
            \/ /\ HasId(job.id)
               /\ ~AlreadySeen(job.id)
               /\ ~(_effective_budget(job) < min_budget_usd)
               /\ todo' = todo - 1
               /\ job_type' = job.jobType
               /\ prompt' = job.prompt
               /\ UNCHANGED <<seen_jobs, listed, state_file, ti, errors, attempted,
                              replies, answer, used_model, upload_result, archive, ai,
                              last_error, sent>>
               /\ outcome' = "processing"
               /\ pc' = AfterBudget(job.jobType)

\* runner.py:76-83: accept_job for a SWARM job.
AcceptJob ==
    /\ pc = "accept"
    /\ trace' = Append(trace, "accept_job")
    /\ UNCHANGED <<job_id, submitted, tracked, exc, client, flask>>
    /\ \E net \in RequestOutcomes :
         \/ /\ _request(net) = "return"
            /\ pc' = "prompt"
            /\ UNCHANGED <<seen_jobs, listed, state_file, outcome, todo, locals>>
         \/ /\ _request(net) = "SeedstrApiError"
            /\ _mark_seen(job_id)
            /\ IF MarkRaises
               THEN Crash
               ELSE UNCHANGED todo /\ EndJob("accept_failed")
         \/ /\ _request(net) \notin Handled
            /\ UNCHANGED <<seen_jobs, listed, state_file>>
            /\ Crash

\* A pipeline that takes a prompt of blanks for a prompt.
EmptyPromptUntrimmed(text) == text = <<>>

\* runner.py:85-86: the prompt is empty after str.strip().
EmptyPrompt(text) == Strip(text) = <<>>

\* runner.py:85-89: the prompt, stripped, and the empty-prompt return.
CheckPrompt ==
    /\ pc = "prompt"
    /\ UNCHANGED <<job_id, trace, submitted, tracked, exc, client, flask>>
    /\ \/ /\ EmptyPrompt(prompt)
          /\ _mark_seen(job_id)
          /\ IF MarkRaises
             THEN Crash
             ELSE UNCHANGED todo /\ EndJob("empty_prompt")
       \/ /\ ~EmptyPrompt(prompt)
          /\ prompt' = Strip(prompt)
          /\ pc' = "generate"
          /\ UNCHANGED <<seen_jobs, listed, state_file, todo, outcome, job_type, ti,
                         errors, attempted, replies, answer, used_model,
                         upload_result, archive, ai, last_error, sent>>

(***************************************************************************)
(* LLMFailoverClient (llm.py:17-61); generate is called at runner.py:98.   *)
(***************************************************************************)
\* llm.py:17-41: __init__ over the settings; without a target it raises the
\* ValueError and no client exists.
Construct ==
    /\ pc = "init"
    /\ targets' = ConfiguredTargets(settings)
    /\ pc' = IF targets' = <<>> THEN "config_error" ELSE "ready"
    /\ exc' = IF targets' = <<>> THEN NoModelsMessage ELSE ""
    /\ UNCHANGED <<seen_jobs, listed, state_file, todo, job_id, locals, trace, outcome,
                   submitted, tracked, settings, flask>>

\* llm.py:43-44: a caller that holds the client calls generate, for the
\* first time or after an earlier call has returned or raised; trace keeps
\* the caller's calls.
CallGenerate ==
    /\ pc \in {"ready", "package", "return"}
    /\ Len(trace) < MaxCalls
    /\ pc' = "generate"
    /\ FreshLocals
    /\ outcome' = "none"
    /\ exc' = ""
    /\ UNCHANGED <<seen_jobs, listed, state_file, todo, job_id, trace, submitted, tracked,
                   client, flask>>

\* A loop that stops at the first failed target.
AbortLoop(i) == Len(targets) + 1

\* llm.py:46, the for loop: the target after target i.
NextTarget(i) == i + 1

\* A loop that gives up after the first target.
ExhaustedAfterFirst(i) == i > 1

\* llm.py:46 and 61: the loop is over, every target was tried.
Exhausted(i) == i > Len(targets)

\* llm.py:46-59: one pass of the loop, the provider call of target ti.
GenerateTry ==
    /\ pc = "generate"
    /\ ~Exhausted(ti)
    /\ trace' = IF attempted = <<>> THEN Append(trace, "generate") ELSE trace
    /\ attempted' = Append(attempted, ti)
    /\ UNCHANGED <<seen_jobs, listed, state_file, todo, job_id, job_type, prompt,
                   upload_result, archive, ai, last_error, sent, outcome,
                   submitted,
                   tracked, exc, client, flask>>
    /\ \E sdk \in SdkOutcomes :
         LET r == ProviderCall(targets[ti], sdk)
         IN  /\ replies' = Append(replies, sdk)
             /\ \/ /\ ~r.raised
                   /\ IsSuccess(r.text)
                   /\ answer' = Strip(r.text)
                   /\ used_model' = Label(targets[ti])
                   /\ pc' = "package"
                   /\ UNCHANGED <<ti, errors>>
                \/ /\ r.raised \/ ~IsSuccess(r.text)
                   /\ errors' = Append(errors, FailureReason(targets[ti], r))
                   /\ ti' = NextTarget(ti)
                   /\ pc' = "generate"
                   /\ UNCHANGED <<answer, used_model>>

\* llm.py:61: the RuntimeError after the loop, caught at runner.py:112.
GenerateExhausted ==
    /\ pc = "generate"
    /\ Exhausted(ti)
    /\ trace' = IF attempted = <<>> THEN Append(trace, "generate") ELSE trace
    /\ exc' = AllFailedMessage(errors)
    /\ OnException
    /\ UNCHANGED <<todo, job_id, submitted, tracked, client, flask>>
    /\ EndJob("failed_generate")

(***************************************************************************)
(* Packaging, upload and response (runner.py:99-111).                      *)
(***************************************************************************)
\* runner.py:159: the time of the call, which the model does not follow.
Now == "now"

\* runner.py:100: the name of the archive in the temporary directory.
ArchivePath(id) == <<"seedstr-job-", id, "-response.zip">>

\* An archive that keeps the trailing blanks of the answer and the prompt.
ArchiveUnstripped(id, text, reply, model_name) ==
    [path |-> ArchivePath(id),
     members |-> ("response.txt" :> (reply \o <<"\n">>))
              @@ ("prompt.txt" :> (text \o <<"\n">>))
              @@ ("metadata.json" :>
                    [job_id |-> id, model |-> model_name, generated_at_utc |-> Now])]

\* runner.py:147-164: the ZIP file written at archive_path, as its members
\* by name.  The text members hold str.rstrip() of the text and a newline;
\* metadata.json holds json.dumps of the metadata dict, kept here as the
\* object a reader parses from it (the values are strings, which JSON gives
\* back unchanged).
_create_submission_archive(id, text, reply, model_name) ==
    [path |-> ArchivePath(id),
     members |-> ("response.txt" :> (RStrip(reply) \o <<"\n">>))
              @@ ("prompt.txt" :> (RStrip(text) \o <<"\n">>))
              @@ ("metadata.json" :>
                    [job_id |-> id, model |-> model_name, generated_at_utc |-> Now])]

\* A pipeline that answers without uploading the archive.
SkipUpload == "respond"

\* runner.py:108: with the archive written, upload_file is the next call.
AfterPackage == "upload"

\* runner.py:98-107: generate has returned (its locals are gone); the
\* temporary directory and the archive; writing them may fail (OSError),
\* which runner.py:112 catches.
Package ==
    /\ pc = "package"
    /\ UNCHANGED <<todo, job_id, trace, submitted, tracked, client, flask>>
    /\ \/ /\ archive' = _create_submission_archive(job_id, prompt, answer, used_model)
          /\ pc' = AfterPackage
          /\ ti' = 1
          /\ errors' = <<>>
          /\ attempted' = <<>>
          /\ replies' = <<>>
          /\ UNCHANGED <<seen_jobs, listed, state_file, outcome, job_type, prompt,
                         answer, used_model, upload_result, ai, last_error,
                         sent, exc>>
       \/ /\ OnException
          /\ exc' = "[Errno 28] No space left on device"
          /\ EndJob("failed_package")

\* runner.py:108 and api.py:168-187: upload_file.
Upload ==
    /\ pc = "upload"
    /\ trace' = Append(trace, "upload_file")
    /\ UNCHANGED <<todo, job_id, submitted, tracked, client, flask>>
    /\ \E net \in RequestOutcomes :
         \/ /\ _request(net) = "return"
            /\ \E u \in UploadResults : upload_result' = u
            /\ pc' = "respond"
            /\ UNCHANGED <<seen_jobs, listed, state_file, outcome, job_type, prompt, ti,
                           errors, attempted, replies, answer, used_model, archive,
                           ai, last_error, sent, exc>>
         \/ /\ _request(net) # "return"
            /\ OnException
            /\ exc' = ErrorMessage(net)
            /\ EndJob("failed_upload")

\* A loop that sends the same payload again.
RepeatAttempt(i) == i

\* api.py:160, the for loop: the payload after payload i.
NextAttempt(i) == i + 1

\* runner.py:109 and api.py:134-165: one pass of respond_file's loop over
\* attempts, the request of payload ai.  An exception of requests.request
\* leaves respond_file at once and is caught at runner.py:112.
RespondTry ==
    /\ pc = "respond"
    /\ ai <= Len(RespondAttempts(upload_result, answer))
    /\ trace' = IF ai = 1 THEN Append(trace, "respond_file") ELSE trace
    /\ UNCHANGED <<todo, job_id, tracked, client, flask>>
    /\ \E net \in RequestOutcomes :
         LET attempts == RespondAttempts(upload_result, answer)
             request == [payload |-> attempts[ai], result |-> _request(net)]
         IN  \/ /\ _request(net) = "return"
                /\ sent' = Append(sent, request)
                /\ submitted' = submitted \cup {job_id}
                /\ pc' = "mark"
                /\ archive' = NoArchive
                /\ UNCHANGED <<seen_jobs, listed, state_file, outcome, job_type, prompt,
                               ti, errors, attempted, replies, answer,
                               used_model, upload_result, ai, last_error, exc>>
             \/ /\ _request(net) = "SeedstrApiError"
                /\ sent' = Append(sent, request)
                /\ last_error' = ErrorMessage(net)
                /\ ai' = NextAttempt(ai)
                /\ pc' = "respond"
                /\ UNCHANGED <<seen_jobs, listed, state_file, outcome, submitted,
                               job_type, prompt, ti, errors, attempted, replies,
                               answer, used_model, upload_result, archive, exc>>
             \/ /\ _request(net) \notin Handled
                /\ exc' = ErrorMessage(net)
                /\ OnException
                /\ UNCHANGED submitted
                /\ EndJob("failed_respond")

\* api.py:166: the SeedstrApiError after the loop, caught at runner.py:112.
RespondExhausted ==
    /\ pc = "respond"
    /\ ai > Len(RespondAttempts(upload_result, answer))
    /\ exc' = SubmitFailedMessage(job_id, last_error)
    /\ OnException
    /\ UNCHANGED <<todo, job_id, trace, submitted, tracked, client, flask>>
    /\ EndJob("failed_respond")

\* runner.py:110-111: respond_file returned; the job is marked seen.  This
\* _mark_seen call is inside the try block: the OSError of its write is
\* caught at runner.py:112.
MarkSubmitted ==
    /\ pc = "mark"
    /\ _mark_seen(job_id)
    /\ UNCHANGED <<todo, job_id, trace, submitted, tracked, client, flask>>
    /\ IF MarkRaises
       THEN exc' = "[Errno 21] Is a directory" /\ EndJob("failed_mark")
       ELSE UNCHANGED exc /\ EndJob("submitted")

(***************************************************************************)
(* A restart: the process ends at any point and a new AgentRunner is       *)
(* constructed over the same state file (runner.py:18-33).                 *)
(***************************************************************************)
Restart ==
    /\ pc' = "poll"
    /\ targets' = ConfiguredTargets(settings)
    /\ seen_jobs' = _load_seen_jobs(state_file)
    /\ listed' = <<>>
    /\ todo' = 0
    /\ job_id' = ""
    /\ FreshLocals
    /\ trace' = <<>>
    /\ exc' = ""
    /\ outcome' = "restarted"
    /\ submitted' = {}
    /\ UNCHANGED <<state_file, tracked, settings, flask>>

Next ==
    \/ ListJobs
    \/ Sleep
    \/ BeginJob
    \/ ReturnJob
    \/ AcceptJob
    \/ CheckPrompt
    \/ GenerateTry
    \/ GenerateExhausted
    \/ Package
    \/ Upload
    \/ RespondTry
    \/ RespondExhausted
    \/ MarkSubmitted
    \/ Restart

Spec == Init /\ [][Next]_vars

(***************************************************************************)
(* Properties.                                                             *)
(***************************************************************************)
\* The ids the state file holds.
Persisted == Range(state_file.jobs)

\* A step in which _process_job calls the marketplace or the model client.
MakesCall == Len(trace') > Len(trace)

\* The outcomes of a job whose try block (runner.py:97-111) raised.
FailedOutcomes ==
    {"failed_generate", "failed_package", "failed_upload", "failed_respond"}

\* C1: a job whose id is in the seen set when _process_job handles it is
\* returned from at once: no accept_job, generate, upload_file or
\* respond_file call is made for it (no call is ever made for an id that is
\* in the seen set), and the seen set and the state file stay as they were.
C1_SeenJobSkipped ==
    [][ /\ (pc = "jobs" /\ job_id' \in seen_jobs)
            => /\ pc' = "return"
               /\ outcome' = "skipped_seen"
               /\ trace' = <<>>
               /\ seen_jobs' = seen_jobs
               /\ state_file' = state_file
        /\ MakesCall => (job_id' = job_id /\ job_id \notin seen_jobs)
      ]_vars

C1_Witness == pc = "return" /\ outcome = "skipped_seen" /\ job_id \in seen_jobs

\* C2: a job with a non-empty, unseen id and an effective budget below
\* min_budget_usd ends marked seen, in memory and in the state file, with no
\* client call made for it.
C2_UnderBudgetMarkedSeen ==
    (pc = "return" /\ outcome = "under_budget")
        => /\ job_id \in seen_jobs
           /\ job_id \in Persisted
           /\ trace = <<>>

\* C3: a job whose generate, archive creation, upload_file or respond_file
\* raised is in neither the seen set nor the state file, the exception stays
\* inside _process_job (the worker goes on), and a later listing of the job
\* takes it to the budget check again.
C3_FailedJobStaysUnseen ==
    [][ /\ (pc \in {"generate", "package", "upload", "respond"}) => pc' # "crashed"
        /\ (pc' = "return" /\ outcome' \in FailedOutcomes)
            => /\ job_id' \notin seen_jobs'
               /\ job_id' \notin Range(state_file'.jobs)
               /\ seen_jobs' = seen_jobs
               /\ state_file' = state_file
        /\ (pc = "jobs" /\ job_id' # "" /\ job_id' \notin seen_jobs)
            => outcome' \in {"under_budget", "processing"}
      ]_vars

C3_Witness ==
    /\ pc = "return"
    /\ outcome = "failed_respond"
    /\ job_id \notin seen_jobs
    /\ seen_jobs # {}

(***************************************************************************)
(* Continuous mode under fairness: one process whose worker keeps taking   *)
(* steps, a marketplace that keeps one job listed with unchanged fields,   *)
(* and calls of each kind that succeed again and again when they keep      *)
(* being made.                                                             *)
(***************************************************************************)
TrackedJobs ==
    {Job("1", type, Num(2), Num(2), <<" ", "p">>) : type \in {"STANDARD", "SWARM"}}

\* The state path may also be one that cannot be written.
LiveInit ==
    /\ StartedOver(StartFiles \cup {UnwritableFile})
    /\ tracked \in TrackedJobs

Worker ==
    \/ ListJobs
    \/ Sleep
    \/ BeginJob
    \/ ReturnJob
    \/ AcceptJob
    \/ CheckPrompt
    \/ GenerateTry
    \/ GenerateExhausted
    \/ Package
    \/ Upload
    \/ RespondTry
    \/ RespondExhausted
    \/ MarkSubmitted

LiveSpec ==
    /\ LiveInit
    /\ [][Worker]_vars
    /\ WF_vars(Worker)
    /\ SF_vars(ListJobs /\ pc' = "jobs")
    /\ SF_vars(BeginJob /\ job_id' = tracked.id)
    /\ SF_vars(AcceptJob /\ pc' = "prompt")
    /\ SF_vars(GenerateTry /\ pc' = "package")
    /\ SF_vars(Package /\ pc' = "upload")
    /\ SF_vars(Upload /\ pc' = "respond")
    /\ SF_vars(RespondTry /\ pc' = "mark")

\* C4: eventual delivery.  A listed job with sufficient budget and a
\* non-empty prompt whose generation or submission failed on some cycle is
\* eventually submitted and marked seen.
C4_EventualDelivery ==
    (pc = "return" /\ outcome \in FailedOutcomes /\ job_id = tracked.id)
        ~> (tracked.id \in submitted /\ tracked.id \in seen_jobs)

C6_FileWithinCap == Len(state_file.jobs) <= SeenCap

C6_Witness ==
    /\ Len(state_file.jobs) = SeenCap
    /\ Cardinality(seen_jobs) > SeenCap

\* C7: persisting a new id into a store that holds the cap drops the oldest
\* entry of the array and keeps the others, then the new id, in order.
C7_OldestDropped ==
    [][ ( /\ seen_jobs' # seen_jobs
          /\ outcome' # "restarted"
          /\ Len(state_file.jobs) = SeenCap )
            => state_file'.jobs
                 = Append(Tail(state_file.jobs),
                          CHOOSE id \in seen_jobs' : id \notin seen_jobs)
      ]_vars

\* C8: the in-memory seen set never holds more ids than the cap.
C8_MemoryWithinCap == Cardinality(seen_jobs) <= SeenCap

\* C9: when generate returns, the target that answered is the last one
\* attempted, the targets before it were each attempted once, in order, and
\* failed, none after it was attempted, and the result is the trimmed,
\* non-empty text with that target's "<provider>:<model>" label.
C9_FirstSuccessReturned ==
    pc = "package"
        => /\ ti \in 1..Len(Targets)
           /\ attempted = [i \in 1..ti |-> i]
           /\ Len(errors) = ti - 1
           /\ used_model = Targets[ti].provider \o ":" \o Targets[ti].model
           /\ answer # <<>>
           /\ Head(answer) # " "
           /\ answer[Len(answer)] # " "
           /\ \E t \in SdkTexts : answer = Strip(t)

C9_Witness ==
    /\ pc = "package"
    /\ attempted = <<1, 2>>
    /\ used_model = "gemini:g2"
    /\ answer = <<"x">>

\* C10: generate raises the all-failed error only when every target has been
\* attempted exactly once, in order, and each attempt failed; while it runs
\* no target is attempted twice.
C10_RaisesOnlyWhenExhausted ==
    /\ [](pc = "generate"
            => /\ \A i, j \in 1..Len(attempted) :
                    attempted[i] = attempted[j] => i = j
               /\ Len(errors) = Len(attempted))
    /\ [][ (pc = "generate" /\ outcome' = "failed_generate")
              => /\ attempted = [i \in 1..Len(Targets) |-> i]
                 /\ Len(errors) = Len(Targets)
         ]_vars

C10_Witness ==
    /\ pc = "generate"
    /\ attempted = [i \in 1..Len(Targets) |-> i]
    /\ Len(errors) = Len(Targets)

(***************************************************************************)
(* The failover client on its own: constructed from any of the settings    *)
(* below, then asked to generate MaxCalls times.                           *)
(***************************************************************************)
\* Settings as load_settings may deliver them: each credential empty or
\* not, each model list empty or not, the gemini list in either order.
SettingsChoices ==
    { LLMSettings(gemini_key, openai_key, g_models, o_models) :
        gemini_key \in {"", "g"},
        openai_key \in {"", "o"},
        g_models \in {<<>>, <<"g1">>, <<"g1", "g2">>, <<"g2", "g1">>},
        o_models \in {<<>>, <<"o1">>} }

ClientInit ==
    /\ pc = "init"
    /\ settings \in SettingsChoices
    /\ targets = <<>>
    /\ state_file = MissingFile
    /\ seen_jobs = {}
    /\ listed = <<>>
    /\ todo = 0
    /\ NoLocals
    /\ outcome = "none"
    /\ submitted = {}
    /\ tracked = NoJob
    /\ NoWebApp

ClientNext ==
    \/ Construct
    \/ CallGenerate
    \/ GenerateTry
    \/ GenerateExhausted

ClientSpec == ClientInit /\ [][ClientNext]_vars

\* The reason generate records for its i-th provider call, read off what
\* the call did.
ReasonOfReply(i) ==
    LET name == targets[i].provider \o ":" \o targets[i].model
    IN  IF replies[i].raised THEN name \o " failed: sdk error"
        ELSE IF replies[i].text = <<>>
        THEN name \o " failed: "
                  \o (IF targets[i].provider = "gemini"
                      THEN "Gemini response has no text field"
                      ELSE "OpenAI response is empty")
        ELSE name \o " returned empty output"

\* C11: when every target has failed, the message of the error generate
\* raises is "All configured models failed. " followed by one reason per
\* target, in attempt order, joined by " | ": "<provider>:<model> failed:
\* <exception>" for a provider call that raised, "<provider>:<model>
\* returned empty output" for one that returned only whitespace.
C11_MessageListsEveryFailure ==
    [][ outcome' = "failed_generate"
          => /\ Len(replies) = Len(targets)
             /\ attempted = [i \in 1..Len(targets) |-> i]
             /\ exc' = "All configured models failed. "
                         \o Join([i \in 1..Len(targets) |-> ReasonOfReply(i)], " | ")
      ]_vars

C11_Witness ==
    /\ pc = "return"
    /\ outcome = "failed_generate"
    /\ exc = "All configured models failed. gemini:g2 failed: sdk error | "
               \o "gemini:g1 returned empty output | "
               \o "openai:o1 failed: OpenAI response is empty"

\* C12: a provider call that raises, or returns empty or whitespace-only
\* text, makes generate record a failure and go on to the next target (it
\* neither returns nor raises at that point), and a non-blank text makes it
\* return that text trimmed; so what generate returns is never empty and
\* never has a leading or trailing blank.
C12_FailedTargetIsSkipped ==
    /\ [][ (pc = "generate" /\ Len(replies') > Len(replies))
             => LET reply == replies'[Len(replies')]
                IN  IF reply.raised \/ Strip(reply.text) = <<>>
                    THEN /\ pc' = "generate"
                         /\ ti' = ti + 1
                         /\ Len(errors') = Len(errors) + 1
                         /\ outcome' = outcome
                         /\ exc' = ""
                         /\ answer' = <<>>
                    ELSE /\ pc' = "package"
                         /\ answer' = Strip(reply.text)
         ]_vars
    /\ [](pc = "package"
            => /\ answer # <<>>
               /\ Head(answer) # " "
               /\ answer[Len(answer)] # " ")

C12_Witness ==
    /\ pc = "package"
    /\ Len(replies) = 3
    /\ replies[1].raised
    /\ ~replies[2].raised
    /\ replies[2].text = <<" ">>
    /\ used_model = "openai:o1"

\* The models a provider contributes: its configured list if it has both a
\* credential and a model, else none.
Contributed(api_key, models) == IF api_key # "" /\ models # <<>> THEN models ELSE <<>>

\* C13: the target list is the enabled gemini models in configured order
\* followed by the enabled openai models in configured order; once the
\* client is constructed the list never changes, and every generate call,
\* the first and the later ones, attempts the targets from the first on in
\* list order.
C13_TargetOrderFixed ==
    /\ [](pc \notin {"init", "config_error"}
            => LET g == Contributed(settings.gemini_api_key, settings.gemini_models)
                   o == Contributed(settings.openai_api_key, settings.openai_models)
               IN  /\ Len(targets) = Len(g) + Len(o)
                   /\ \A i \in 1..Len(g) :
                        targets[i] = [provider |-> "gemini", model |-> g[i]]
                   /\ \A i \in 1..Len(o) :
                        targets[Len(g) + i] = [provider |-> "openai", model |-> o[i]])
    /\ [](attempted = [i \in 1..Len(attempted) |-> i])
    /\ [][pc # "init" => targets' = targets]_vars

C13_Witness ==
    /\ pc = "generate"
    /\ Len(trace) = MaxCalls
    /\ attempted = <<1, 2>>
    /\ targets = << [provider |-> "gemini", model |-> "g2"],
                    [provider |-> "gemini", model |-> "g1"],
                    [provider |-> "openai", model |-> "o1"] >>

\* C14: a provider has targets in the list only if both its credential and
\* its model list are non-empty; construction raises the "No LLM models
\* configured" error exactly when neither provider is enabled, and
\* otherwise gives a client whose target list is not empty.
C14_ConstructionNeedsProvider ==
    LET gemini_on == settings.gemini_api_key # "" /\ settings.gemini_models # <<>>
        openai_on == settings.openai_api_key # "" /\ settings.openai_models # <<>>
    IN  pc # "init"
          => /\ \A i \in 1..Len(targets) :
                  /\ targets[i].provider = "gemini" => gemini_on
                  /\ targets[i].provider = "openai" => openai_on
             /\ (pc = "config_error") <=> (~gemini_on /\ ~openai_on)
             /\ pc = "config_error" => (targets = <<>> /\ exc = NoModelsMessage)
             /\ pc # "config_error" => targets # <<>>

C14_Witness ==
    /\ pc = "config_error"
    /\ settings.gemini_api_key = ""
    /\ settings.gemini_models # <<>>
    /\ settings.openai_api_key # ""
    /\ settings.openai_models = <<>>

(***************************************************************************)
(* respond_file on its own: called for a job whose archive was uploaded,   *)
(* over any of the upload results below.                                   *)
(***************************************************************************)
\* Objects with reference keys as the marketplace may return them: none, a
\* plain value, a value with a trailing blank, a blank value, and two keys
\* listed against the priority order.
RefObjects ==
    { EmptyObject,
      ("url" :> <<"u">>),
      ("id" :> <<"u", " ">>),
      ("url" :> <<" ">>) @@ ("fileId" :> <<"v">>),
      ("path" :> <<"u">>) @@ ("fileUrl" :> <<"v">>) }

\* The sequences over S of at most n elements.
SeqsUpTo(S, n) == UNION {[1..k -> S] : k \in 0..n}

\* Upload results: a list under "files" (objects and other values, at most
\* MaxFiles of them) with or without an object under "file", or no list
\* and any or no object under "file".
UploadResultsWide ==
    { UploadResult(top, TRUE, files, has_file,
                   IF has_file THEN ("url" :> <<"v">>) ELSE EmptyObject) :
        top \in RefObjects,
        files \in SeqsUpTo({DictItem(o) : o \in RefObjects} \cup {OtherItem}, MaxFiles),
        has_file \in BOOLEAN }
    \cup
    { UploadResult(top, FALSE, <<>>, FALSE, EmptyObject) : top \in RefObjects }
    \cup
    { UploadResult(top, FALSE, <<>>, TRUE, file) :
        top \in RefObjects, file \in RefObjects }

\* runner.py:109: _process_job is about to call respond_file with the
\* upload result and the answer.
SubmitInit ==
    /\ pc = "respond"
    /\ settings = RunSettings
    /\ targets = ConfiguredTargets(settings)
    /\ state_file = MissingFile
    /\ seen_jobs = {}
    /\ listed = <<>>
    /\ todo = 0
    /\ job_id = "1"
    /\ job_type = "STANDARD"
    /\ prompt = <<"p">>
    /\ ti = 1
    /\ errors = <<>>
    /\ attempted = <<>>
    /\ replies = <<>>
    /\ answer = <<"x">>
    /\ used_model = Label(targets[1])
    /\ upload_result \in UploadResultsWide
    /\ archive = NoArchive
    /\ ai = 1
    /\ last_error = ""
    /\ sent = <<>>
    /\ exc = ""
    /\ trace = <<"generate", "upload_file">>
    /\ outcome = "processing"
    /\ submitted = {}
    /\ tracked = NoJob
    /\ NoWebApp

SubmitNext ==
    \/ RespondTry
    \/ RespondExhausted
    \/ MarkSubmitted
    \/ ReturnJob

SubmitSpec == SubmitInit /\ [][SubmitNext]_vars

\* The requests of the current respond_file call that the marketplace
\* answered with a success.
Accepted == {i \in 1..Len(sent) : sent[i].result = "return"}

C16_TextFallbackAlwaysSent ==
    /\ [](pc \in {"respond", "mark"}
            => LET attempts == RespondAttempts(upload_result, answer)
               IN  attempts[Len(attempts)]
                     = [responseType |-> "TEXT", key |-> "content", value |-> answer])
    /\ [][ (pc = "respond" /\ outcome' = "failed_respond")
              => /\ Len(sent) = Len(RespondAttempts(upload_result, answer))
                 /\ sent[Len(sent)].payload.responseType = "TEXT"
         ]_vars

\* C17: when every attempt of respond_file, the text fallback included, has
\* raised an API error, respond_file raises the error "Failed to submit
\* file response for job <job id>: <last error>", where the last error is
\* the one the last attempt raised, and no response is recorded for the job.
C17_AllAttemptsFailedRaises ==
    [][ ( /\ pc = "respond"
          /\ Len(sent) = Len(RespondAttempts(upload_result, answer))
          /\ \A i \in 1..Len(sent) : sent[i].result = "SeedstrApiError" )
            => /\ pc' = "return"
               /\ outcome' = "failed_respond"
               /\ last_error \in {"Invalid JSON from API (502)", "HTTP 500"}
               /\ exc' = "Failed to submit file response for job " \o job_id
                           \o ": " \o last_error
               /\ job_id \notin submitted'
               /\ seen_jobs' = seen_jobs
      ]_vars

C17_Witness ==
    /\ pc = "return"
    /\ outcome = "failed_respond"
    /\ exc = "Failed to submit file response for job 1: HTTP 500"

\* C18: the attempts of respond_file are, in order: if there is a file
\* descriptor, one FILE attempt with the descriptors as the list "files",
\* then, only if there is exactly one descriptor, one FILE attempt with it
\* as the object "file"; for each reference string in order, five FILE
\* attempts (content, fileUrl, url, attachments = [ref], files = [{url:
\* ref}]); then the TEXT fallback.  Their number is [descriptors non-empty]
\* + [exactly one descriptor] + 5 * (number of references) + 1.
C18_AttemptList ==
    pc \in {"respond", "mark"}
      => LET d == _extract_upload_file_candidates(upload_result)
             refs == _extract_upload_reference_strings(upload_result)
             a == RespondAttempts(upload_result, answer)
             k == (IF d # <<>> THEN 1 ELSE 0) + (IF Len(d) = 1 THEN 1 ELSE 0)
             File(key, value) == [responseType |-> "FILE", key |-> key, value |-> value]
         IN  /\ Len(a) = k + 5 * Len(refs) + 1
             /\ d # <<>> => a[1] = File("files", d)
             /\ Len(d) = 1 => a[2] = File("file", d[1])
             /\ \A j \in 1..Len(refs) :
                  LET at == k + 5 * (j - 1)
                  IN  /\ a[at + 1] = File("content", refs[j])
                      /\ a[at + 2] = File("fileUrl", refs[j])
                      /\ a[at + 3] = File("url", refs[j])
                      /\ a[at + 4] = File("attachments", <<refs[j]>>)
                      /\ a[at + 5] = File("files", <<[url |-> refs[j]]>>)
             /\ a[Len(a)] = [responseType |-> "TEXT", key |-> "content",
                             value |-> answer]

C18_Witness ==
    /\ pc = "respond"
    /\ Len(_extract_upload_file_candidates(upload_result)) = 1
    /\ Len(_extract_upload_reference_strings(upload_result)) = 2
    /\ Len(RespondAttempts(upload_result, answer)) = 13
    /\ ai = 13

\* The keys of the scan, in priority order.
ScanOrder == <<"url", "fileUrl", "cdnUrl", "signedUrl", "path", "key", "id", "fileId">>

\* The values met by scanning the keys at the top level of the upload
\* result u and then inside each of its file descriptors, in scan order
\* (the empty text where a key is missing).
Found(u) ==
    LET d == _extract_upload_file_candidates(u)
    IN  [p \in 1..(Len(ScanOrder) * (1 + Len(d))) |->
           LET j == (p - 1) \div Len(ScanOrder)
               key == ScanOrder[((p - 1) % Len(ScanOrder)) + 1]
               obj == IF j = 0 THEN u.top ELSE d[j]
           IN  IF key \in DOMAIN obj THEN obj[key] ELSE <<>>]

\* refs lists the non-empty elements of values, each once, in the order of
\* their first occurrence in values.
FirstSeenOrder(refs, values) ==
    LET First(v) == CHOOSE p \in 1..Len(values) :
                      /\ values[p] = v
                      /\ \A q \in 1..(p - 1) : values[q] # v
    IN  /\ {refs[i] : i \in 1..Len(refs)}
              = {values[p] : p \in 1..Len(values)} \ {<<>>}
        /\ \A i, j \in 1..Len(refs) : i < j => First(refs[i]) < First(refs[j])

\* C19 as stated: the reference strings are the non-empty values found by
\* the scan, without duplicates, in first-seen order.
C19_RefsAreNonEmptyValues ==
    pc = "respond"
      => FirstSeenOrder(_extract_upload_reference_strings(upload_result),
                        Found(upload_result))

\* C19, amended: the reference strings are the values found by the scan
\* with their surrounding whitespace removed, those that are empty after
\* the removal left out, without duplicates (compared after the removal),
\* in first-seen order.
C19_RefsAreTrimmedValues ==
    pc = "respond"
      => LET found == Found(upload_result)
         IN  FirstSeenOrder(_extract_upload_reference_strings(upload_result),
                            [p \in 1..Len(found) |-> Strip(found[p])])

C19_Witness ==
    /\ pc = "respond"
    /\ upload_result.top = (("url" :> <<" ">>) @@ ("fileId" :> <<"v">>))
    /\ upload_result.has_files
    /\ upload_result.files = <<DictItem("id" :> <<"u", " ">>), DictItem("url" :> <<"u">>)>>
    /\ _extract_upload_reference_strings(upload_result) = << <<"v">>, <<"u">> >>
    /\ Len(sent) = 7
    /\ sent[2].payload.value = <<"v">>
    /\ sent[7].payload.value = <<"u">>

\* The calls of trace that work on the job or answer it.
WorkCalls == {"generate", "upload_file", "respond_file"}

\* C20: for a SWARM job that has passed the budget check, accept_job is
\* the first call made for it, before any generate, upload_file or
\* respond_file call, and it is made once; when every call succeeds the
\* calls are accept_job, generate, upload_file, respond_file, one of each,
\* and exactly one response is accepted; for a job that is not SWARM
\* accept_job is never called.
C20_SwarmAcceptedFirst ==
    /\ [](job_type = "SWARM"
            => /\ pc \in {"prompt", "generate", "package", "upload", "respond", "mark"}
                    => (trace # <<>> /\ trace[1] = "accept_job")
               /\ \A i \in 1..Len(trace) :
                    /\ trace[i] \in WorkCalls => \E j \in 1..(i - 1) : trace[j] = "accept_job"
                    /\ trace[i] = "accept_job" => i = 1
               /\ (pc = "mark" /\ Len(sent) = 1)
                    => /\ trace = <<"accept_job", "generate", "upload_file", "respond_file">>
                       /\ Accepted = {1}
                       /\ job_id \in submitted)
    /\ [](job_type = "STANDARD" => \A i \in 1..Len(trace) : trace[i] # "accept_job")
    /\ [][ (Len(trace') > Len(trace) /\ trace'[Len(trace')] = "accept_job")
              => (job_type = "SWARM" /\ trace = <<>>) ]_vars

C20_Witness ==
    /\ pc = "mark"
    /\ job_type = "SWARM"
    /\ trace = <<"accept_job", "generate", "upload_file", "respond_file">>
    /\ Len(sent) = 1
    /\ job_id \in submitted

\* C21: when accept_job fails for a SWARM job, the job is marked seen, no
\* generate, upload_file or respond_file call is made for it, and
\* _process_job returns to the for loop, which goes on with the jobs that
\* are left of the listing.
C21_AcceptFailureSkipsJobOnly ==
    [][ (pc = "accept" /\ MakesCall /\ pc' # "prompt")
            => /\ job_type = "SWARM"
               /\ job_id \in seen_jobs'
               /\ \A i \in 1..Len(trace') : trace'[i] \notin WorkCalls
               /\ pc' = "return"
               /\ outcome' = "accept_failed"
               /\ todo' = todo
      ]_vars

\* C23: when list_jobs fails, or returns no jobs, run_once returns to
\* run_forever (which sleeps) without raising, no accept, generate, upload
\* or respond call is made, and the seen set and the state file stay as
\* they were.
C23_ListFailureIsQuiet ==
    [][ (pc = "poll" /\ pc' # "jobs" /\ outcome' # "restarted")
            => /\ pc' = "sleep"
               /\ outcome' \in {"list_failed", "no_jobs"}
               /\ trace' = <<>>
               /\ seen_jobs' = seen_jobs
               /\ state_file' = state_file
      ]_vars

\* str(exc) of the SeedstrApiError _request raises.
ApiErrorMessages == {ErrorMessage(net) : net \in {"bad_json", "http_error"}}

\* C25: a marketplace call that fails raises SeedstrApiError and nothing
\* else: list_jobs and accept_job never end the worker with an exception
\* their handlers (except SeedstrApiError) miss, and what upload_file or
\* respond_file raised is a SeedstrApiError of _request or the final
\* SeedstrApiError of respond_file.
C25_FailedCallsRaiseApiError ==
    /\ pc # "crashed"
    /\ (pc = "return" /\ outcome = "failed_upload") => exc \in ApiErrorMessages
    /\ (pc = "return" /\ outcome = "failed_respond")
           => exc \in {SubmitFailedMessage(job_id, m) : m \in ApiErrorMessages}

\* C26: a listed job whose id is missing or empty is returned from at
\* once: no call is made for it (no call is ever made for the empty id),
\* and the empty id never enters the seen set or the state file, which
\* stay as they were.
C26_NoIdNeverProcessed ==
    /\ [][ (pc = "jobs" /\ job_id' = "" /\ outcome' # "restarted")
               => /\ pc' = "return"
                  /\ outcome' = "skipped_no_id"
                  /\ trace' = <<>>
                  /\ seen_jobs' = seen_jobs
                  /\ state_file' = state_file
         ]_vars
    /\ [][MakesCall => job_id' # ""]_vars
    /\ []("" \notin seen_jobs /\ "" \notin Persisted)

C26_Witness ==
    /\ pc = "return"
    /\ outcome = "skipped_no_id"
    /\ job_id = ""
    /\ trace = <<>>
    /\ seen_jobs # {}

\* C27: a job that has passed the budget check (and, if SWARM, was
\* accepted) and whose prompt is empty after trimming is marked seen and
\* returned from; no generate, upload_file or respond_file call is made for
\* it (such a call is only ever made with a prompt that is not empty).
C27_EmptyPromptMarkedSeen ==
    /\ [][ (pc = "prompt" /\ Strip(prompt) = <<>> /\ outcome' # "restarted")
               => /\ job_id \in seen_jobs'
                  /\ pc' = "return"
                  /\ outcome' = "empty_prompt"
                  /\ trace' = trace
                  /\ \A i \in 1..Len(trace') : trace'[i] \notin WorkCalls
         ]_vars
    /\ [][ (MakesCall /\ trace'[Len(trace')] \in WorkCalls)
               => Strip(prompt) # <<>> ]_vars

C27_Witness ==
    /\ pc = "return"
    /\ outcome = "empty_prompt"
    /\ job_id \in seen_jobs
    /\ trace = <<"accept_job">>

\* C28: a job that was not seen, has sufficient budget and a non-empty
\* prompt, and for which every call succeeded, has had exactly one
\* generate, one upload_file and one respond_file call (after one
\* accept_job call if it is SWARM), and its id is then in the seen set and
\* in the state file.
C28_SubmittedOnceAndMarked ==
    (pc = "return" /\ outcome = "submitted")
        => /\ trace \in { <<"generate", "upload_file", "respond_file">>,
                          <<"accept_job", "generate", "upload_file", "respond_file">> }
           /\ job_id \in submitted
           /\ job_id \in seen_jobs
           /\ job_id \in Persisted

\* C30: over a state file that is missing, is not JSON, or is JSON without
\* the expected structure, the seen set is empty until a job is marked
\* seen (which writes a state file of the expected structure).
C30_UnusableFileStartsEmpty ==
    state_file.kind \in {"missing", "corrupt", "no_list", "iterable"}
        => seen_jobs = {}

(***************************************************************************)
(* The gate of _process_job on its own (runner.py:57-73): a listing, the   *)
(* id test, the seen test and the budget test, with one listed job whose   *)
(* type and budget fields are known.  A job that passes the gate stays at  *)
(* the step it was handed to.                                              *)
(***************************************************************************)
BudgetJobs ==
    { Job("1", type, budget, per_agent, <<" ", "p">>) :
        type \in {"STANDARD", "SWARM"},
        budget \in {Absent, NotANumber, Num(0), Num(2)},
        per_agent \in {Absent, NotANumber, Num(2)} }

BudgetInit ==
    /\ StartedOver({MissingFile})
    /\ tracked \in BudgetJobs

BudgetNext ==
    \/ ListJobs
    \/ Sleep
    \/ BeginJob
    \/ ReturnJob

BudgetSpec == BudgetInit /\ [][BudgetNext]_vars

\* The effective budget as C22 states it.
ClaimedBudget(job) ==
    IF job.jobType = "SWARM"
    THEN IF job.budgetPerAgent.t = "num" THEN job.budgetPerAgent.v ELSE 0
    ELSE IF job.budget.t = "num" THEN job.budget.v ELSE 0

\* C22: the effective budget of a SWARM job is its budgetPerAgent if that
\* is present and a number, else 0 whatever its budget field holds; that of
\* any other job is its budget if present and a number, else 0; computing
\* it never raises.  So an unseen job is skipped as under budget exactly
\* when that value is below min_budget_usd, and the test never ends the
\* worker.
C22_EffectiveBudgetAsClaimed ==
    [][ (pc = "jobs" /\ job_id' = tracked.id /\ tracked.id \notin seen_jobs)
            => /\ pc' # "crashed"
               /\ outcome' = "under_budget"
                      <=> ClaimedBudget(tracked) < min_budget_usd
      ]_vars

\* C24: in continuous mode no failure of a marketplace call, of a model
\* call or of persisting the seen set ends the polling loop: whatever has
\* happened, run_forever starts another cycle later on.
C24_PollingNeverEnds == []<>(pc = "poll")

(***************************************************************************)
(* The web wrapper (flask_app/app.py): _ensure_agent_thread, called at     *)
(* the start of the process and by every health check, and the threads it  *)
(* starts, which run _start_agent_loop.  Requests are served concurrently, *)
(* so the calls and the threads interleave line by line.  Of the polling   *)
(* loop the wrapper's worker runs, this part follows list_jobs and the     *)
(* sleep; a listing with jobs is followed in Spec.                         *)
(***************************************************************************)
\* What load_settings (config.py:39-65) may find in the environment: a
\* provider with key and models, or none.
FlaskSettings == {RunSettings, LLMSettings("", "o", <<"g1">>, <<>>)}

\* The threads that are past the start guard of _start_agent_loop
\* (app.py:36-37): at line 38, at lines 39-40, at lines 42-45, in
\* run_forever, or after the handler of lines 47-51.
PastGuard == {"started", "construct", "polling", "stopped"}

FlaskInit ==
    /\ pc = "init"
    /\ settings \in FlaskSettings
    /\ targets = <<>>
    /\ state_file \in StartFiles
    /\ seen_jobs = {}
    /\ listed = <<>>
    /\ todo = 0
    /\ NoLocals
    /\ outcome = "none"
    /\ submitted = {}
    /\ tracked = NoJob
    /\ AGENT_STATUS = InitialStatus
    /\ _AGENT_LOCK = 0
    /\ triggers = [i \in Triggers |-> "call"]
    /\ threads = [i \in Triggers |-> "none"]

\* The pipeline's state, which the wrapper's own lines leave alone.
pipeline == <<pc, seen_jobs, listed, state_file, todo, job_id, locals, exc, settings,
              targets, trace, outcome, submitted, tracked>>

\* app.py:55-56: the unlocked read of "started" in _ensure_agent_thread.
EnsureAgentThread(i) ==
    /\ triggers[i] = "call"
    /\ triggers' = [triggers EXCEPT ![i] =
                        IF AGENT_STATUS.started THEN "done" ELSE "spawn"]
    /\ UNCHANGED <<AGENT_STATUS, _AGENT_LOCK, threads, pipeline>>

\* app.py:57-58: the thread is created and started; it begins at line 35.
StartThread(i) ==
    /\ triggers[i] = "spawn"
    /\ triggers' = [triggers EXCEPT ![i] = "done"]
    /\ threads' = [threads EXCEPT ![i] = "lock"]
    /\ UNCHANGED <<AGENT_STATUS, _AGENT_LOCK, pipeline>>

\* app.py:35: with _AGENT_LOCK, which blocks while another thread holds it.
AcquireLock(i) ==
    /\ threads[i] = "lock"
    /\ _AGENT_LOCK = 0
    /\ _AGENT_LOCK' = i
    /\ threads' = [threads EXCEPT ![i] = "guard"]
    /\ UNCHANGED <<AGENT_STATUS, triggers, pipeline>>

\* A guard that lets every thread through.
GuardOpen(status) == FALSE

\* app.py:36: the test of "started" under the lock.
GuardClosed(status) == status.started

\* app.py:36-38: the guard.  A thread that finds "started" set returns,
\* which releases the lock; any other sets it.
StartGuard(i) ==
    /\ threads[i] = "guard"
    /\ IF GuardClosed(AGENT_STATUS)
       THEN /\ threads' = [threads EXCEPT ![i] = "returned"]
            /\ _AGENT_LOCK' = 0
            /\ UNCHANGED AGENT_STATUS
       ELSE /\ threads' = [threads EXCEPT ![i] = "started"]
            /\ AGENT_STATUS' = [AGENT_STATUS EXCEPT !.started = TRUE]
            /\ UNCHANGED _AGENT_LOCK
    /\ UNCHANGED <<triggers, pipeline>>

\* app.py:39-40 and the end of the with block: "running" is set and the
\* lock released.
SetRunning(i) ==
    /\ threads[i] = "started"
    /\ AGENT_STATUS' = [AGENT_STATUS EXCEPT !.running = TRUE]
    /\ _AGENT_LOCK' = 0
    /\ threads' = [threads EXCEPT ![i] = "construct"]
    /\ UNCHANGED <<triggers, pipeline>>

\* A handler that clears "started", so that a later call starts a worker.
WorkerFailedRestartable(i, message) ==
    /\ AGENT_STATUS' = [AGENT_STATUS EXCEPT !.last_error = message,
                                            !.running = FALSE,
                                            !.started = FALSE]
    /\ threads' = [threads EXCEPT ![i] = "stopped"]

\* app.py:47-51: the handler of whatever the try block raised, and the
\* finally clause; the thread ends.
WorkerFailed(i, message) ==
    /\ AGENT_STATUS' = [AGENT_STATUS EXCEPT !.last_error = message,
                                            !.running = FALSE]
    /\ threads' = [threads EXCEPT ![i] = "stopped"]

\* app.py:44-45: load_settings and AgentRunner(...), whose __init__
\* (runner.py:18-33) builds the failover client, which raises without a
\* target, and loads the seen set.
ConstructRunner(i) ==
    /\ threads[i] = "construct"
    /\ targets' = ConfiguredTargets(settings)
    /\ IF targets' = <<>>
       THEN /\ pc' = "config_error"
            /\ exc' = NoModelsMessage
            /\ WorkerFailed(i, NoModelsMessage)
            /\ UNCHANGED <<seen_jobs, listed>>
       ELSE /\ pc' = "poll"
            /\ seen_jobs' = _load_seen_jobs(state_file)
            /\ listed' = <<>>
            /\ threads' = [threads EXCEPT ![i] = "polling"]
            /\ UNCHANGED <<exc, AGENT_STATUS>>
    /\ UNCHANGED <<_AGENT_LOCK, triggers, state_file, todo, job_id, locals,
                   settings, trace, outcome, submitted, tracked>>

\* app.py:46-51: run_forever has raised (run_once let an exception of
\* list_jobs through); str(exc) is kept and "running" cleared.
RunForeverRaised(i) ==
    /\ threads[i] = "polling"
    /\ pc = "crashed"
    /\ pc' = "stopped"
    /\ \E net \in RequestOutcomes :
         /\ _request(net) \notin Handled
         /\ exc' = ErrorMessage(net)
         /\ WorkerFailed(i, ErrorMessage(net))
    /\ UNCHANGED <<_AGENT_LOCK, triggers, seen_jobs, listed, state_file, todo, job_id,
                   locals, settings, targets, trace, outcome, submitted,
                   tracked>>

FlaskNext ==
    \/ \E i \in Triggers :
         \/ EnsureAgentThread(i)
         \/ StartThread(i)
         \/ AcquireLock(i)
         \/ StartGuard(i)
         \/ SetRunning(i)
         \/ ConstructRunner(i)
         \/ RunForeverRaised(i)
    \/ ListJobs
    \/ Sleep

FlaskSpec == FlaskInit /\ [][FlaskNext]_vars

\* C29: whatever the interleaving of concurrent _ensure_agent_thread
\* calls, at most one thread ever gets past the start guard, so at most one
\* constructs an AgentRunner and runs the polling loop; the guard is only
\* ever tested by the thread that holds the lock.
C29_OneWorkerPastGuard ==
    /\ Cardinality({i \in Triggers : threads[i] \in PastGuard}) <= 1
    /\ Cardinality({i \in Triggers : threads[i] \in {"guard", "started"}}) <= 1
    /\ \A i \in Triggers : threads[i] \in {"guard", "started"} => _AGENT_LOCK = i

\* Both calls read "started" before any thread had set it and both started
\* a thread; one thread runs the loop, the other returned at the guard.
C29_Witness ==
    /\ \E i, j \in Triggers :
         /\ threads[i] = "polling"
         /\ threads[j] = "returned"
    /\ pc = "sleep"

\* The worker thread has ended in the handler of app.py:47-51.
WorkerStopped == \E i \in Triggers : threads[i] = "stopped"

\* C37: the "started" flag, once set, is never cleared; "running" implies
\* "started" in every state; and after the worker has stopped because of an
\* exception ("running" false, "last_error" set) no call starts a new
\* worker: no thread gets past the guard again, the flags stay as they are
\* and polling never resumes.
C37_StartedNeverCleared ==
    /\ [][AGENT_STATUS.started => AGENT_STATUS'.started]_vars
    /\ [](AGENT_STATUS.running => AGENT_STATUS.started)
    /\ [](WorkerStopped
            => /\ AGENT_STATUS.started
               /\ ~AGENT_STATUS.running
               /\ AGENT_STATUS.last_error # ""
               /\ pc \in {"stopped", "config_error"}
               /\ \A j \in Triggers : threads[j] \notin {"started", "construct", "polling"})
    /\ [][ WorkerStopped
              => /\ AGENT_STATUS' = AGENT_STATUS
                 /\ pc' = pc
                 /\ \A j \in Triggers : threads'[j] = "stopped" <=> threads[j] = "stopped"
       ]_vars

\* The worker has stopped on an exception of run_forever, and another call
\* has come to its end without a new worker: its thread returned at the
\* guard, or it started no thread.
C37_Witness ==
    /\ \E i, j \in Triggers :
         /\ threads[i] = "stopped"
         /\ triggers[j] = "done"
         /\ threads[j] \in {"none", "returned"}
    /\ pc = "stopped"
    /\ AGENT_STATUS.started
    /\ ~AGENT_STATUS.running
    /\ AGENT_STATUS.last_error # ""

(***************************************************************************)
(* The Seen-Job Store on its own: an AgentRunner over the state file an    *)
(* earlier process may have left, and a caller that marks ids seen, any id *)
(* at any time, the id of the call before included.                        *)
(***************************************************************************)
\* SeenJobsFile(l) for every list a persist may have written.
WrittenFiles ==
    UNION { {SeenJobsFile(Trimmed(l)) : l \in Orderings(S)} : S \in SUBSET JobIds }

StoreInit ==
    /\ pc = "store"
    /\ settings = RunSettings
    /\ targets = ConfiguredTargets(settings)
    /\ state_file \in StartFiles \cup WrittenFiles \cup {UnwritableFile}
    /\ seen_jobs = _load_seen_jobs(state_file)
    /\ listed = <<>>
    /\ todo = 0
    /\ NoLocals
    /\ outcome = "none"
    /\ submitted = {}
    /\ tracked = NoJob
    /\ NoWebApp

\* runner.py:139-145: one _mark_seen(id) call; job_id keeps the id, and
\* outcome whether it is the id of the call before.
MarkSeen(id) ==
    /\ pc = "store"
    /\ _mark_seen(id)
    /\ job_id' = id
    /\ outcome' = IF job_id = id THEN "marked_again" ELSE "marked"
    /\ UNCHANGED <<pc, todo, locals, trace, exc, submitted, tracked, client, flask>>

StoreNext == \E id \in JobIds : MarkSeen(id)

StoreSpec == StoreInit /\ [][StoreNext]_vars

\* C31: persisting is idempotent.  A _mark_seen call for the id the call
\* before it marked leaves the seen set and the content of the state file
\* exactly as that call left them.
C31_MarkTwiceChangesNothing ==
    [][ (job_id # "" /\ job_id' = job_id)
            => /\ seen_jobs' = seen_jobs
               /\ state_file' = state_file
      ]_vars

\* The id was marked twice in a row with the seen set over the cap, and the
\* file, which the slice keeps it out of, is as the first call wrote it.
C31_Witness ==
    /\ outcome = "marked_again"
    /\ Cardinality(seen_jobs) > SeenCap
    /\ job_id \in seen_jobs
    /\ job_id \notin Persisted
    /\ state_file = SeenJobsFile(Trimmed(listed))

(***************************************************************************)
(* The submission archive on its own: _create_submission_archive is a      *)
(* static method, called here as runner.py:101-107 calls it but over any   *)
(* job id, prompt, answer and model label, texts with trailing blanks      *)
(* included.                                                               *)
(***************************************************************************)
ArchiveTexts ==
    {<<>>, <<" ", " ">>, <<"a">>, <<"a", " ">>, <<" ", "a", " ", " ">>}

ArchiveInit ==
    /\ pc = "package"
    /\ settings = RunSettings
    /\ targets = ConfiguredTargets(settings)
    /\ state_file = MissingFile
    /\ seen_jobs = {}
    /\ listed = <<>>
    /\ todo = 0
    /\ job_id \in JobIds
    /\ job_type = "STANDARD"
    /\ prompt \in ArchiveTexts
    /\ answer \in ArchiveTexts
    /\ used_model \in {Label(targets[i]) : i \in 1..Len(targets)}
    /\ ti = 1
    /\ errors = <<>>
    /\ attempted = <<>>
    /\ replies = <<>>
    /\ upload_result = NoUpload
    /\ archive = NoArchive
    /\ ai = 1
    /\ last_error = ""
    /\ sent = <<>>
    /\ trace = <<>>
    /\ exc = ""
    /\ outcome = "none"
    /\ submitted = {}
    /\ tracked = NoJob
    /\ NoWebApp

ArchiveNext == Package

ArchiveSpec == ArchiveInit /\ [][ArchiveNext]_vars

\* The text is the body, then nothing but blanks, and the body does not
\* end in a blank: the body is the text with its trailing whitespace removed.
IsRStripOf(body, text) ==
    /\ Len(body) <= Len(text)
    /\ body = SubSeq(text, 1, Len(body))
    /\ body = <<>> \/ body[Len(body)] # " "
    /\ \A i \in (Len(body) + 1)..Len(text) : text[i] = " "

\* C32: the archive built for a job id, prompt, answer and model label has
\* exactly the three members response.txt, prompt.txt and metadata.json; the
\* answer member is the answer without its trailing whitespace, then one
\* newline; the metadata's job_id and model are the job id and the label.
C32_ArchiveContents ==
    pc = "upload"
        => LET members == archive.members
               response == members["response.txt"]
           IN  /\ DOMAIN members = {"response.txt", "prompt.txt", "metadata.json"}
               /\ Cardinality(DOMAIN members) = 3
               /\ response # <<>>
               /\ response[Len(response)] = "\n"
               /\ IsRStripOf(SubSeq(response, 1, Len(response) - 1), answer)
               /\ members["metadata.json"].job_id = job_id
               /\ members["metadata.json"].model = used_model

\* An archive was built for an answer that ends in blanks; its answer member
\* is the answer up to them and the newline.
C32_Witness ==
    /\ pc = "upload"
    /\ answer = <<" ", "a", " ", " ">>
    /\ job_id = "2"
    /\ used_model = "openai:o1"
    /\ archive.members["response.txt"] = <<" ", "a", "\n">>
    /\ archive.members["metadata.json"].job_id = "2"
    /\ archive.members["metadata.json"].model = "openai:o1"

(***************************************************************************)
(* The per-job state machine as a whole (runner.py:41-113).                *)
(***************************************************************************)
\* Where the worker is while a _process_job call is under way.
JobSteps ==
    {"jobs", "accept", "prompt", "generate", "package", "upload", "respond", "mark"}

\* The outcomes in which _process_job has called _mark_seen.
MarkingOutcomes == {"under_budget", "accept_failed", "empty_prompt", "submitted"}

\* The outcomes of a _process_job call that returns.
TerminalOutcomes ==
    MarkingOutcomes
        \cup {"skipped_seen", "skipped_no_id", "failed_generate", "failed_package",
              "failed_upload", "failed_respond", "failed_mark"}

\* C33: run_once terminates over any finite listing and every listed job
\* reaches exactly one terminal outcome.  No step of a job ends the worker
\* or adds to the jobs still to process; a job that returns has one of the
\* terminal outcomes; and the job is marked seen by the step that ends it
\* exactly when that outcome is under-budget, accept-failed, empty-prompt or
\* submitted, the seen set being left alone by every other step of a job.
C33_EveryJobOneOutcome ==
    [][ (pc \in JobSteps /\ outcome' # "restarted")
            => /\ pc' # "crashed"
               /\ todo' <= todo
               /\ pc' = "return" => outcome' \in TerminalOutcomes
               /\ pc' = "return"
                    => (outcome' \in MarkingOutcomes
                          <=> job_id' \in seen_jobs' \ seen_jobs)
               /\ pc' # "return" => seen_jobs' = seen_jobs
      ]_vars

\* The call trace has just got as its last entry.
Calls(name) == Len(trace') = Len(trace) + 1 /\ trace'[Len(trace')] = name

\* The steps of the try block of _process_job (runner.py:97-111).
TrySteps == {"generate", "package", "upload", "respond", "mark"}

\* C34: within one job attempt the calls are ordered and gated.  upload_file
\* is called only after generate has returned an answer and a model label;
\* respond_file only after upload_file has returned; in the try block the
\* job is marked seen only after respond_file has returned without error;
\* and when generate has exhausted every target, neither upload_file nor
\* respond_file is called.
C34_CallsOrderedAndGated ==
    /\ [](\A i, j \in 1..Len(trace) :
            /\ (trace[i] = "upload_file" /\ trace[j] = "generate") => j < i
            /\ (trace[i] = "respond_file" /\ trace[j] = "upload_file") => j < i
            /\ (trace[i] = trace[j]) => i = j)
    /\ [][ Calls("upload_file")
              => /\ trace # <<>> /\ trace[Len(trace)] = "generate"
                 /\ answer # <<>>
                 /\ \E i \in 1..Len(targets) : used_model = Label(targets[i])
                 /\ archive = _create_submission_archive(job_id, prompt, answer, used_model)
       ]_vars
    /\ [][ Calls("respond_file")
              => /\ trace[Len(trace)] = "upload_file"
                 /\ pc = "respond"
                 /\ upload_result \in UploadResults
       ]_vars
    /\ [][ (pc \in TrySteps /\ outcome' # "restarted" /\ seen_jobs' # seen_jobs)
              => /\ pc = "mark"
                 /\ trace[Len(trace)] = "respond_file"
                 /\ sent[Len(sent)].result = "return"
                 /\ job_id \in submitted
                 /\ seen_jobs' = seen_jobs \cup {job_id}
                 /\ outcome' = "submitted"
       ]_vars
    /\ [](outcome = "failed_generate"
            => \A i \in 1..Len(trace) : trace[i] \notin {"upload_file", "respond_file"})
    /\ [][ (pc = "generate" /\ Exhausted(ti) /\ outcome' # "restarted")
              => (outcome' = "failed_generate" /\ trace' = trace \o
                     (IF attempted = <<>> THEN <<"generate">> ELSE <<>>)) ]_vars

\* A job went through the whole try block: generate, upload_file and
\* respond_file were called in that order, and then the job was marked seen.
C34_Witness ==
    /\ pc = "return"
    /\ outcome = "submitted"
    /\ trace = <<"generate", "upload_file", "respond_file">>
    /\ job_id \in submitted
    /\ job_id \in seen_jobs

\* The ids for which respond_file has returned and the step after it, the
\* _mark_seen call of runner.py:111, has been taken.
Answered == submitted \ (IF pc = "mark" THEN {job_id} ELSE {})

FailingSdk(target) ==
    {sdk \in SdkOutcomes :
        LET r == ProviderCall(target, sdk) IN r.raised \/ ~IsSuccess(r.text)}

\* llm.py:61: the messages generate may raise when every target failed.
ExhaustedMessages ==
    { AllFailedMessage([i \in 1..Len(Targets) |->
                           FailureReason(Targets[i], ProviderCall(Targets[i], f[i]))]) :
        f \in {g \in [1..Len(Targets) -> SdkOutcomes] :
                 \A i \in 1..Len(Targets) : g[i] \in FailingSdk(Targets[i])} }

\* What upload_file may raise (runner.py:108).
UploadMessages == {ErrorMessage(net) : net \in {n \in RequestOutcomes : _request(n) # "return"}}

RetryInit ==
    /\ pc = "return"
    /\ settings = RunSettings
    /\ targets = ConfiguredTargets(settings)
    /\ state_file \in {f \in StartFiles : "1" \notin _load_seen_jobs(f)}
    /\ seen_jobs = _load_seen_jobs(state_file)
    /\ listed = <<>>
    /\ todo \in 0..(MaxJobs - 1)
    /\ tracked = Job("1", "SWARM", Num(2), Num(2), <<" ", "p">>)
    /\ job_id = tracked.id
    /\ job_type = ""
    /\ prompt = <<>>
    /\ ti = 1
    /\ errors = <<>>
    /\ attempted = <<>>
    /\ replies = <<>>
    /\ answer = <<>>
    /\ used_model = ""
    /\ upload_result = NoUpload
    /\ archive = NoArchive
    /\ ai = 1
    /\ last_error = ""
    /\ sent = <<>>
    /\ \/ /\ outcome = "failed_generate"
          /\ trace = <<"accept_job", "generate">>
          /\ exc \in ExhaustedMessages
       \/ /\ outcome = "failed_upload"
          /\ trace = <<"accept_job", "generate", "upload_file">>
          /\ exc \in UploadMessages
    /\ submitted = {}
    /\ NoWebApp

RetrySpec ==
    /\ RetryInit
    /\ [][Worker]_vars
    /\ WF_vars(Worker)
    /\ SF_vars(ListJobs /\ pc' = "jobs")
    /\ SF_vars(BeginJob /\ job_id' = tracked.id)
    /\ SF_vars(AcceptJob /\ pc' = "prompt")
    /\ SF_vars(GenerateTry /\ pc' = "package")
    /\ SF_vars(Package /\ pc' = "upload")
    /\ SF_vars(Upload /\ pc' = "respond")
    /\ SF_vars(RespondTry /\ pc' = "mark")

\* C36: a SWARM job that was accepted and then failed in generation or
\* submission is left unmarked; when it is listed again accept_job is called
\* for it again, before any generate call; and if that accept fails the job
\* is marked seen and is never answered.
C36_FailedReacceptEndsJob ==
    /\ []((pc = "return" /\ outcome \in FailedOutcomes /\ job_id = tracked.id)
            => (trace[1] = "accept_job" /\ tracked.id \notin seen_jobs))
    /\ [][ (pc = "jobs" /\ job_id' = tracked.id /\ tracked.id \notin seen_jobs)
              => (pc' = "accept" /\ trace' = <<>>) ]_vars
    /\ [][ (pc = "accept" /\ job_id = tracked.id /\ pc' # "prompt")
              => /\ outcome' = "accept_failed"
                 /\ tracked.id \in seen_jobs'
                 /\ trace' = <<"accept_job">>
       ]_vars
    /\ [][ (tracked.id \in seen_jobs /\ tracked.id \notin submitted)
              => (tracked.id \in seen_jobs' /\ tracked.id \notin submitted') ]_vars

=============================================================================
